---- MODULE Spec2Model ----
(***************************************************************************)
(* Vertical sequencing and lifeline segmentation of umli sequence          *)
(* diagrams: the forward pass over the DSL statements (interactions.Maker  *)
(* and the older diag.Creator), the per-lifeline activity box trackers,    *)
(* the no-go zone registry and the assembly of the dashed lifeline         *)
(* segments (lifeline.Finalizer / LifelineSegments.Assemble).              *)
(*                                                                         *)
(* Coordinates are integers (the float64 coordinates of the source in a    *)
(* fixed unit).                                                            *)
(***************************************************************************)
EXTENDS Integers, Sequences, FiniteSets, TLC

(* ------------------------------------------------------------------ *)
(* Bounds of the model                                                 *)
(* ------------------------------------------------------------------ *)

\* Largest coordinate of an occupied interval handed to Assemble directly.
MaxCoord == 4

\* Largest number of occupied intervals (zones plus boxes) handed to Assemble
\* directly.
MaxItems == 2

\* Largest number of statements in a DSL script, its lane statements included.
MaxScript == 5

(* ------------------------------------------------------------------ *)
(* Lifelines, segments, no-go zones                                    *)
(* ------------------------------------------------------------------ *)

\* The lane names a script may declare, in the order it declares them.
LaneNames == <<"A", "B", "C", "D">>

Min(a, b) == IF a <= b THEN a ELSE b

Max(a, b) == IF a >= b THEN a ELSE b

\* geom.NewSegment
NewSegment(start, end) == [start |-> start, end |-> end]

\* Segment.Length
Length(seg) == seg.end - seg.start

\* nogozone.NewNoGoZone
NewNoGoZone(seg, source, dest) == [seg |-> seg, source |-> source, dest |-> dest]

\* Position of a lifeline in the declaration order.
IndexOf(ll, lifelines) == CHOOSE i \in 1..Len(lifelines) : lifelines[i] = ll

\* A zone strictly between its two lanes only: the end lanes are left out.
ZoneAppliesStrict(zone, ll, lifelines) ==
    LET i == IndexOf(zone.source, lifelines)
        j == IndexOf(zone.dest, lifelines)
        k == IndexOf(ll, lifelines)
    IN  Min(i, j) < k /\ k < Max(i, j)

\* A zone reaching every lane from its first lane on, whatever its last lane.
ZoneAppliesFromFirstLane(zone, ll, lifelines) ==
    LET i == IndexOf(zone.source, lifelines)
        j == IndexOf(zone.dest, lifelines)
        k == IndexOf(ll, lifelines)
    IN  Min(i, j) <= k

\* The applicability rule: the zone's lanes span the lifeline, inclusive,
\* whichever of the two is the source.
ZoneApplies(zone, ll, lifelines) ==
    LET i == IndexOf(zone.source, lifelines)
        j == IndexOf(zone.dest, lifelines)
        k == IndexOf(ll, lifelines)
    IN  Min(i, j) <= k /\ k <= Max(i, j)

\* The segments of the registered zones that are applicable to a lifeline.
ApplicableTo(zones, ll, lifelines) ==
    LET sel == SelectSeq(zones, LAMBDA z : ZoneApplies(z, ll, lifelines))
    IN  [i \in 1..Len(sel) |-> sel[i].seg]

(* ------------------------------------------------------------------ *)
(* Box tracker state                                                   *)
(* ------------------------------------------------------------------ *)

\* One activity box: segment{y, -1} and inProgress until it is terminated.
NewBoxExtent(y) == [start |-> y, end |-> -1, inProgress |-> TRUE]

\* BoxTracker.Extents: the boxes with a defined end, as segments.
Extents(tracker) ==
    LET closed == SelectSeq(tracker, LAMBDA b : ~b.inProgress)
    IN  [i \in 1..Len(closed) |-> NewSegment(closed[i].start, closed[i].end)]

(* ------------------------------------------------------------------ *)
(* Segment assembler                                                   *)
(* ------------------------------------------------------------------ *)

\* Sort order of occupied intervals: by start, ties by end.
SegLess(a, b) == a.start < b.start \/ (a.start = b.start /\ a.end < b.end)

RECURSIVE InsertSorted(_, _)
InsertSorted(seg, sorted) ==
    IF sorted = <<>> THEN <<seg>>
    ELSE IF SegLess(seg, Head(sorted)) THEN <<seg>> \o sorted
    ELSE <<Head(sorted)>> \o InsertSorted(seg, Tail(sorted))

\* The occupied intervals left in the order they were given.
SortSegsNot(segs) == segs

RECURSIVE SortSegs(_)
SortSegs(segs) ==
    IF segs = <<>> THEN <<>>
    ELSE InsertSorted(segs[Len(segs)], SortSegs(SubSeq(segs, 1, Len(segs) - 1)))

\* Merging of overlapping intervals only: touching ones are kept apart.
RECURSIVE MergeOverlappingOnly(_)
MergeOverlappingOnly(sorted) ==
    IF Len(sorted) < 2 THEN sorted
    ELSE LET a == sorted[1]
             b == sorted[2]
         IN  IF b.start < a.end
             THEN MergeOverlappingOnly(
                      <<NewSegment(a.start, Max(a.end, b.end))>> \o SubSeq(sorted, 3, Len(sorted)))
             ELSE <<a>> \o MergeOverlappingOnly(Tail(sorted))

\* Merging that takes the end of the later interval, also when the earlier
\* one reaches further.
RECURSIVE MergeTakingLaterEnd(_)
MergeTakingLaterEnd(sorted) ==
    IF Len(sorted) < 2 THEN sorted
    ELSE LET a == sorted[1]
             b == sorted[2]
         IN  IF b.start <= a.end
             THEN MergeTakingLaterEnd(
                      <<NewSegment(a.start, b.end)>> \o SubSeq(sorted, 3, Len(sorted)))
             ELSE <<a>> \o MergeTakingLaterEnd(Tail(sorted))

\* Merge overlapping or touching intervals: b.start <= a.end merges into
\* [a.start, max(a.end, b.end)].
RECURSIVE MergeSegs(_)
MergeSegs(sorted) ==
    IF Len(sorted) < 2 THEN sorted
    ELSE LET a == sorted[1]
             b == sorted[2]
         IN  IF b.start <= a.end
             THEN MergeSegs(
                      <<NewSegment(a.start, Max(a.end, b.end))>> \o SubSeq(sorted, 3, Len(sorted)))
             ELSE <<a>> \o MergeSegs(Tail(sorted))

\* The walk returning the gaps latest first.
RECURSIVE CandidateGapsLatestFirst(_, _, _)
CandidateGapsLatestFirst(merged, cursor, bottom) ==
    IF merged = <<>>
    THEN IF bottom > cursor THEN <<NewSegment(cursor, bottom)>> ELSE <<>>
    ELSE LET m == Head(merged)
             gap == IF m.start > cursor THEN <<NewSegment(cursor, m.start)>> ELSE <<>>
         IN  CandidateGapsLatestFirst(Tail(merged), m.end, bottom) \o gap

\* Walk the merged intervals from cursor: a candidate gap before each interval
\* that starts after the cursor, and a final one up to bottom.
RECURSIVE CandidateGaps(_, _, _)
CandidateGaps(merged, cursor, bottom) ==
    IF merged = <<>>
    THEN IF bottom > cursor THEN <<NewSegment(cursor, bottom)>> ELSE <<>>
    ELSE LET m == Head(merged)
             gap == IF m.start > cursor THEN <<NewSegment(cursor, m.start)>> ELSE <<>>
         IN  gap \o CandidateGaps(Tail(merged), m.end, bottom)

\* The threshold filter with the comparison off by one: a gap of exactly
\* minSegLen is dropped too.
KeepGapStrict(gap, minSegLen) == Length(gap) > minSegLen

\* The threshold taken by its magnitude: a negative one discards too.
KeepGapByMagnitude(gap, minSegLen) == Length(gap) >= Max(minSegLen, 0 - minSegLen)

\* The threshold filter: a gap shorter than minSegLen is discarded.
KeepGap(gap, minSegLen) == Length(gap) >= minSegLen

\* The occupied intervals of a lifeline: applicable zones and box extents.
Occupied(ll, noGoZones, tracker, lifelines) ==
    ApplicableTo(noGoZones, ll, lifelines) \o Extents(tracker)

\* The occupied intervals, sorted and merged.
MergedOccupied(ll, noGoZones, tracker, lifelines) ==
    MergeSegs(SortSegs(Occupied(ll, noGoZones, tracker, lifelines)))

\* LifelineSegments.Assemble
Assemble(ll, top, bottom, minSegLen, noGoZones, tracker, lifelines) ==
    SelectSeq(CandidateGaps(MergedOccupied(ll, noGoZones, tracker, lifelines), top, bottom),
              LAMBDA g : KeepGap(g, minSegLen))


(* ------------------------------------------------------------------ *)
(* lifeline.BoxTracker                                                 *)
(* ------------------------------------------------------------------ *)

\* BoxTracker.HasABoxInProgress: the most recently added extent has no end.
HasABoxInProgress(tracker) ==
    Len(tracker) > 0 /\ tracker[Len(tracker)].inProgress

\* A new extent appended whether or not a box is in progress.
AddStartingAtAlways(tracker, y) ==
    [err |-> "", tracker |-> Append(tracker, NewBoxExtent(y))]

\* BoxTracker.AddStartingAt: a new extent with no end; an error (the tracker
\* unchanged) when a box is already in progress.
AddStartingAt(tracker, y) ==
    IF HasABoxInProgress(tracker)
    THEN [err |-> "InvalidState", tracker |-> tracker]
    ELSE [err |-> "", tracker |-> Append(tracker, NewBoxExtent(y))]

\* The end set without comparing y with the start of the box.
TerminateAtAnyY(tracker, y) ==
    IF ~HasABoxInProgress(tracker)
    THEN [err |-> "InvalidState", tracker |-> tracker]
    ELSE [err |-> "",
          tracker |-> [tracker EXCEPT ![Len(tracker)] =
                          [start |-> @.start, end |-> y, inProgress |-> FALSE]]]

\* BoxTracker.TerminateAt: sets the end of the in-progress extent; an error
\* (the tracker unchanged) when none is in progress or y is before its start.
TerminateAt(tracker, y) ==
    IF ~HasABoxInProgress(tracker) \/ y < tracker[Len(tracker)].start
    THEN [err |-> "InvalidState", tracker |-> tracker]
    ELSE [err |-> "",
          tracker |-> [tracker EXCEPT ![Len(tracker)] =
                          [start |-> @.start, end |-> y, inProgress |-> FALSE]]]

(* ------------------------------------------------------------------ *)
(* diag.lifelineBoxes                                                  *)
(* ------------------------------------------------------------------ *)

\* The first box of the lifeline asked instead of the most recent one.
inProgressOfFirstBox(llb) ==
    IF Len(llb) = 0 THEN FALSE ELSE llb[1].inProgress

\* lifelineBoxes.inProgress (with mostRecent): false when there is no box.
inProgress(llb) ==
    IF Len(llb) = 0 THEN FALSE ELSE llb[Len(llb)].inProgress

\* lifelineBoxes.terminateInProgressBoxAt: ends the most recent box at y.
terminateInProgressBoxAt(llb, y) ==
    IF Len(llb) = 0 THEN llb
    ELSE [llb EXCEPT ![Len(llb)] = [start |-> @.start, end |-> y, inProgress |-> FALSE]]

\* lifelineBoxes.startBoxAt
startBoxAt(llb, y) == Append(llb, NewBoxExtent(y))

\* lifelineBoxes.boxExtentsAsSegments: the extent of every box, in order.
boxExtentsAsSegments(llb) ==
    [i \in 1..Len(llb) |-> NewSegment(llb[i].start, llb[i].end)]

(* ------------------------------------------------------------------ *)
(* Statements and sizing                                               *)
(* ------------------------------------------------------------------ *)

NewStatement(keyword, lanes, labels) ==
    [Keyword |-> keyword, ReferencedLifelines |-> lanes, LabelSegments |-> labels]

\* The lane statements that open a script with n lanes. A lane statement
\* stands for its lifeline: the lane name is its identity.
LaneStatements(n) ==
    [i \in 1..n |-> NewStatement("lane", <<LaneNames[i]>>, <<"name">>)]

\* The statements that may follow the lane statements of the given lanes.
StatementSet(lanes) ==
    {NewStatement("title", <<>>, <<"t">>)}
    \cup {NewStatement(k, <<p[1], p[2]>>, <<"m">>) :
            k \in {"full", "dash"},
            p \in {q \in lanes \X lanes : q[1] # q[2]}}
    \cup {NewStatement("self", <<s>>, <<"m">>) : s \in lanes}
    \cup {NewStatement("stop", <<s>>, <<>>) : s \in lanes}

\* The scripts of n lanes and m more statements: lane statements first,
\* then statements that refer to the declared lanes.
Scripts(n, m) ==
    {LaneStatements(n) \o rest : rest \in [1..m -> StatementSet({LaneNames[i] : i \in 1..n})]}

\* isolateLifelines: the lifelines of a script, in declaration order.
isolateLifelines(allStatements) ==
    LET lanes == SelectSeq(allStatements, LAMBDA s : s.Keyword = "lane")
    IN  [i \in 1..Len(lanes) |-> lanes[i].ReferencedLifelines[1]]

\* The sizing values the build reads, in the unit of the coordinates.
SizerProfiles ==
    { \* proportions of the font height as in sizer/settings.go
      [fontHt |-> 2, InteractionLineTextPadB |-> 1, InteractionLinePadB |-> 1,
       ArrowHeight |-> 2, SelfLoopHeight |-> 3, ActivityBoxVerticalOverlap |-> 1,
       IndividualStoppedBoxPadB |-> 1, FinalizedActivityBoxesPadB |-> 1,
       FrameInternalPadB |-> 1, DiagramPadT |-> 1, DiagramPadB |-> 1,
       FrameTitleTextPadT |-> 1, FrameTitleTextPadB |-> 1, FrameTitleRectPadB |-> 1,
       TitleBoxHeight |-> 3, TitleBoxPadB |-> 1, MinSegLen |-> 1],
      \* no padding at all, and an overlap larger than any advance
      [fontHt |-> 1, InteractionLineTextPadB |-> 0, InteractionLinePadB |-> 0,
       ArrowHeight |-> 0, SelfLoopHeight |-> 1, ActivityBoxVerticalOverlap |-> 3,
       IndividualStoppedBoxPadB |-> 0, FinalizedActivityBoxesPadB |-> 0,
       FrameInternalPadB |-> 0, DiagramPadT |-> 0, DiagramPadB |-> 0,
       FrameTitleTextPadT |-> 0, FrameTitleTextPadB |-> 0, FrameTitleRectPadB |-> 0,
       TitleBoxHeight |-> 1, TitleBoxPadB |-> 0, MinSegLen |-> 2] }

(* ------------------------------------------------------------------ *)
(* State                                                               *)
(* ------------------------------------------------------------------ *)

VARIABLES
    impl,             \* which forward pass runs: "Maker" or "Creator"
    sizer,            \* the sizing values of this build
    statements,       \* the DSL script
    actions,          \* the dispatch list of the forward pass
    ip,               \* position of the next dispatch in actions
    pc,               \* the step of the build that runs next
    tidemark,         \* Creator.tideMark / prevTidemark of the Maker's loop
    updatedTidemark,  \* the tidemark the last Maker action returned
    boxes,            \* lifeline -> its activity boxes
    noGoZones,        \* the registered no-go zones, in registration order
    err,              \* the error the forward pass returned, "" when none
    top,              \* top of the lifelines (bottom of their title boxes)
    bottom,           \* bottom of the lifelines
    minSegLen,        \* shortest lifeline segment that is drawn
    segs,             \* lifeline -> the dashed segments drawn for it
    height            \* graphicsModel.Height

vars == <<impl, sizer, statements, actions, ip, pc, tidemark, updatedTidemark,
          boxes, noGoZones, err, top, bottom, minSegLen, segs, height>>

\* Creator.lifelineStatements / Finalizer.lifelines
allLifelines == isolateLifelines(statements)

Lifelines == {allLifelines[i] : i \in 1..Len(allLifelines)}

\* A fresh box tracker for every lifeline of the script.
NoBoxes(stmts) ==
    LET lls == isolateLifelines(stmts)
    IN  [ll \in {lls[i] : i \in 1..Len(lls)} |-> <<>>]

NoSegs(stmts) == NoBoxes(stmts)

\* NewCreator / NewMaker: nothing drawn yet.
Init ==
    /\ impl \in {"Maker", "Creator"}
    /\ sizer \in SizerProfiles
    /\ \E n \in 0..Min(MaxScript, Len(LaneNames)) :
          \E m \in 0..(MaxScript - n) : statements \in Scripts(n, m)
    /\ actions = <<>>
    /\ ip = 1
    /\ pc = "initPass"
    /\ tidemark = 0
    /\ updatedTidemark = 0
    /\ boxes = NoBoxes(statements)
    /\ noGoZones = <<>>
    /\ err = ""
    /\ top = 0
    /\ bottom = 0
    /\ minSegLen = 0
    /\ segs = NoSegs(statements)
    /\ height = 0


(* ------------------------------------------------------------------ *)
(* interactions.Maker: the forward pass of the decomposed design       *)
(* ------------------------------------------------------------------ *)

NewDispatch(fn, s) == [fn |-> fn, statement |-> s]

\* The actions of a full statement with the two boxes opened before the
\* label is drawn.
DispatchesForBoxesFirst(s) ==
    CASE s.Keyword = "dash" ->
            <<NewDispatch("interactionLabel", s), NewDispatch("startToBox", s),
              NewDispatch("interactionLine", s)>>
      [] s.Keyword = "full" ->
            <<NewDispatch("startFromBox", s), NewDispatch("startToBox", s),
              NewDispatch("interactionLabel", s), NewDispatch("interactionLine", s)>>
      [] s.Keyword = "self" ->
            <<NewDispatch("selfLabel", s), NewDispatch("startFromBox", s),
              NewDispatch("selfLines", s)>>
      [] s.Keyword = "stop" -> <<NewDispatch("endBox", s)>>
      [] OTHER -> <<>>

\* The actions ScanInteractionStatements appends for one statement.
DispatchesFor(s) ==
    CASE s.Keyword = "dash" ->
            <<NewDispatch("interactionLabel", s), NewDispatch("startToBox", s),
              NewDispatch("interactionLine", s)>>
      [] s.Keyword = "full" ->
            <<NewDispatch("interactionLabel", s), NewDispatch("startFromBox", s),
              NewDispatch("startToBox", s), NewDispatch("interactionLine", s)>>
      [] s.Keyword = "self" ->
            <<NewDispatch("selfLabel", s), NewDispatch("startFromBox", s),
              NewDispatch("selfLines", s)>>
      [] s.Keyword = "stop" -> <<NewDispatch("endBox", s)>>
      [] OTHER -> <<>>

RECURSIVE ActionsFor(_)
ActionsFor(stmts) ==
    IF stmts = <<>> THEN <<>>
    ELSE DispatchesFor(Head(stmts)) \o ActionsFor(Tail(stmts))

\* What an action function returns, with the state it leaves behind.
ActionResult(newTidemark, e, bx, zones) ==
    [newTidemark |-> newTidemark, err |-> e, boxes |-> bx, noGoZones |-> zones]

\* The label's zone put in a list of its own, the earlier zones dropped.
Maker_interactionLabelFreshList(tm, s, sz, bx, zones) ==
    LET sourceLifeline == s.ReferencedLifelines[1]
        destLifeline == s.ReferencedLifelines[2]
        newTidemark == tm + Len(s.LabelSegments) * sz.fontHt + sz.InteractionLineTextPadB
        noGoZone == NewNoGoZone(NewSegment(tm, newTidemark), sourceLifeline, destLifeline)
    IN  ActionResult(newTidemark, "", bx, <<noGoZone>>)

\* Maker.interactionLabel
Maker_interactionLabel(tm, s, sz, bx, zones) ==
    LET sourceLifeline == s.ReferencedLifelines[1]
        destLifeline == s.ReferencedLifelines[2]
        newTidemark == tm + Len(s.LabelSegments) * sz.fontHt + sz.InteractionLineTextPadB
        noGoZone == NewNoGoZone(NewSegment(tm, newTidemark), sourceLifeline, destLifeline)
    IN  ActionResult(newTidemark, "", bx, Append(zones, noGoZone))

\* Maker.selfLabel
selfLabel(tm, s, sz, bx, zones) ==
    LET htOfLabels == Len(s.LabelSegments) * sz.fontHt
        newTidemark == tm + htOfLabels + sz.InteractionLineTextPadB
    IN  ActionResult(newTidemark, "", bx, zones)

\* The line drawn without claiming its band.
Maker_interactionLineUnclaimed(tm, s, sz, bx, zones) ==
    LET newTidemark == tm + sz.InteractionLinePadB
    IN  ActionResult(newTidemark, "", bx, zones)

\* Maker.interactionLine
Maker_interactionLine(tm, s, sz, bx, zones) ==
    LET sourceLifeline == s.ReferencedLifelines[1]
        destLifeline == s.ReferencedLifelines[2]
        newTidemark == tm + sz.InteractionLinePadB
        noGoZone == NewNoGoZone(NewSegment(tm, newTidemark), sourceLifeline, destLifeline)
    IN  ActionResult(newTidemark, "", bx, Append(zones, noGoZone))

\* Maker.selfLines
selfLines(tm, s, sz, bx, zones) ==
    LET lineBottom == tm + sz.SelfLoopHeight
        newTidemark == lineBottom + sz.InteractionLinePadB
    IN  ActionResult(newTidemark, "", bx, zones)

\* The box added without asking whether one is in progress.
startToBoxUnguarded(tm, s, sz, bx, zones) ==
    LET toLifeline == s.ReferencedLifelines[2]
        r == AddStartingAt(bx[toLifeline], tm)
    IN  IF r.err # "" THEN ActionResult(-1, "boxes.AddStartingAt", bx, zones)
        ELSE ActionResult(tm, "", [bx EXCEPT ![toLifeline] = r.tracker], zones)

\* Maker.startToBox
startToBox(tm, s, sz, bx, zones) ==
    LET toLifeline == s.ReferencedLifelines[2]
        r == AddStartingAt(bx[toLifeline], tm)
    IN  IF HasABoxInProgress(bx[toLifeline]) THEN ActionResult(tm, "", bx, zones)
        ELSE IF r.err # "" THEN ActionResult(-1, "boxes.AddStartingAt", bx, zones)
        ELSE ActionResult(tm, "", [bx EXCEPT ![toLifeline] = r.tracker], zones)

\* The backdated start of the box returned as the tidemark.
startFromBoxReturningStart(tm, s, sz, bx, zones) ==
    LET fromLifeline == s.ReferencedLifelines[1]
        backTrackToStart == sz.ActivityBoxVerticalOverlap
        r == AddStartingAt(bx[fromLifeline], tm - backTrackToStart)
    IN  IF HasABoxInProgress(bx[fromLifeline]) THEN ActionResult(tm, "", bx, zones)
        ELSE IF r.err # "" THEN ActionResult(-1, "boxes.AddStartingAt", bx, zones)
        ELSE ActionResult(tm - backTrackToStart, "",
                          [bx EXCEPT ![fromLifeline] = r.tracker], zones)

\* Maker.startFromBox
startFromBox(tm, s, sz, bx, zones) ==
    LET fromLifeline == s.ReferencedLifelines[1]
        backTrackToStart == sz.ActivityBoxVerticalOverlap
        r == AddStartingAt(bx[fromLifeline], tm - backTrackToStart)
    IN  IF HasABoxInProgress(bx[fromLifeline]) THEN ActionResult(tm, "", bx, zones)
        ELSE IF r.err # "" THEN ActionResult(-1, "boxes.AddStartingAt", bx, zones)
        ELSE ActionResult(tm, "", [bx EXCEPT ![fromLifeline] = r.tracker], zones)

\* The stop ending the box in progress of every lifeline, not only its own.
Maker_endBoxEveryLifeline(tm, s, sz, bx, zones) ==
    LET fromLifeline == s.ReferencedLifelines[1]
        r == TerminateAt(bx[fromLifeline], tm)
    IN  IF r.err # "" THEN ActionResult(-1, "boxes.TerminateAt", bx, zones)
        ELSE ActionResult(tm + sz.IndividualStoppedBoxPadB, "",
                          [ll \in DOMAIN bx |->
                              IF HasABoxInProgress(bx[ll]) THEN TerminateAt(bx[ll], tm).tracker
                              ELSE bx[ll]],
                          zones)

\* Maker.endBox
Maker_endBox(tm, s, sz, bx, zones) ==
    LET fromLifeline == s.ReferencedLifelines[1]
        r == TerminateAt(bx[fromLifeline], tm)
    IN  IF r.err # "" THEN ActionResult(-1, "boxes.TerminateAt", bx, zones)
        ELSE ActionResult(tm + sz.IndividualStoppedBoxPadB, "",
                          [bx EXCEPT ![fromLifeline] = r.tracker], zones)

\* ScanInteractionStatements, the list of actions built from the statements.
ScanInteractionStatements ==
    /\ impl = "Maker"
    /\ pc = "sequentialPass"
    /\ actions' = ActionsFor(statements)
    /\ ip' = 1
    /\ pc' = "forward"
    /\ UNCHANGED <<impl, sizer, statements, tidemark, updatedTidemark, boxes, noGoZones,
                   err, top, bottom, minSegLen, segs, height>>

\* The dispatch that runs next is fn.
MakerAt(fn) ==
    /\ impl = "Maker"
    /\ pc = "forward"
    /\ ip <= Len(actions)
    /\ actions[ip].fn = fn

\* The loop going on to the next action whatever the action returned.
MakerLoopIgnoringError(r) ==
    /\ updatedTidemark' = r.newTidemark
    /\ boxes' = r.boxes
    /\ noGoZones' = r.noGoZones
    /\ tidemark' = r.newTidemark
    /\ ip' = ip + 1
    /\ UNCHANGED <<err, pc>>
    /\ UNCHANGED <<impl, sizer, statements, actions, top, bottom, minSegLen, segs, height>>

\* The loop handing every action the tidemark the scan was called with.
MakerLoopStaleTidemark(r) ==
    /\ updatedTidemark' = r.newTidemark
    /\ boxes' = r.boxes
    /\ noGoZones' = r.noGoZones
    /\ IF r.err # ""
       THEN /\ err' = "actionFn"
            /\ pc' = "failed"
            /\ UNCHANGED <<tidemark, ip>>
       ELSE /\ tidemark' = tidemark
            /\ ip' = ip + 1
            /\ UNCHANGED <<err, pc>>
    /\ UNCHANGED <<impl, sizer, statements, actions, top, bottom, minSegLen, segs, height>>

\* One turn of the loop over the actions: the error ends the scan, otherwise
\* the returned tidemark is handed to the next action.
MakerLoop(r) ==
    /\ updatedTidemark' = r.newTidemark
    /\ boxes' = r.boxes
    /\ noGoZones' = r.noGoZones
    /\ IF r.err # ""
       THEN /\ err' = "actionFn"
            /\ pc' = "failed"
            /\ UNCHANGED <<tidemark, ip>>
       ELSE /\ tidemark' = r.newTidemark
            /\ ip' = ip + 1
            /\ UNCHANGED <<err, pc>>
    /\ UNCHANGED <<impl, sizer, statements, actions, top, bottom, minSegLen, segs, height>>

Dispatch_interactionLabel ==
    /\ MakerAt("interactionLabel")
    /\ MakerLoop(Maker_interactionLabel(tidemark, actions[ip].statement, sizer, boxes, noGoZones))

Dispatch_selfLabel ==
    /\ MakerAt("selfLabel")
    /\ MakerLoop(selfLabel(tidemark, actions[ip].statement, sizer, boxes, noGoZones))

Dispatch_interactionLine ==
    /\ MakerAt("interactionLine")
    /\ MakerLoop(Maker_interactionLine(tidemark, actions[ip].statement, sizer, boxes, noGoZones))

Dispatch_selfLines ==
    /\ MakerAt("selfLines")
    /\ MakerLoop(selfLines(tidemark, actions[ip].statement, sizer, boxes, noGoZones))

Dispatch_startToBox ==
    /\ MakerAt("startToBox")
    /\ MakerLoop(startToBox(tidemark, actions[ip].statement, sizer, boxes, noGoZones))

Dispatch_startFromBox ==
    /\ MakerAt("startFromBox")
    /\ MakerLoop(startFromBox(tidemark, actions[ip].statement, sizer, boxes, noGoZones))

Dispatch_endBox ==
    /\ MakerAt("endBox")
    /\ MakerLoop(Maker_endBox(tidemark, actions[ip].statement, sizer, boxes, noGoZones))

\* The return of ScanInteractionStatements after the last action: the build
\* goes on from the tidemark it returns.
ScanReturn ==
    /\ impl = "Maker"
    /\ pc = "forward"
    /\ ip > Len(actions)
    /\ tidemark' = updatedTidemark
    /\ pc' = "finalizeActivityBoxes"
    /\ UNCHANGED <<impl, sizer, statements, actions, ip, updatedTidemark, boxes, noGoZones,
                   err, top, bottom, minSegLen, segs, height>>


(* ------------------------------------------------------------------ *)
(* diag.Creator: the older, monolithic pass                            *)
(* ------------------------------------------------------------------ *)

\* The events of a dash statement with a box opened on the source as well.
EventsRequiredDashFromBox(keyword) ==
    CASE keyword = "lane" -> <<"LifelineTitleBox", "LifelineLine">>
      [] keyword = "dash" ->
            <<"InteractionLabel", "PotentiallyStartFromBox", "PotentiallyStartToBox",
              "InteractionLine">>
      [] keyword = "full" ->
            <<"InteractionLabel", "PotentiallyStartFromBox", "PotentiallyStartToBox",
              "InteractionLine">>
      [] keyword = "self" -> <<"PotentiallyStartFromBox", "SelfInteractionLines">>
      [] keyword = "stop" -> <<"EndBox">>
      [] OTHER -> <<>>

\* EventsRequired: the drawing events of each keyword, in order.
EventsRequired(keyword) ==
    CASE keyword = "lane" -> <<"LifelineTitleBox", "LifelineLine">>
      [] keyword = "dash" ->
            <<"InteractionLabel", "PotentiallyStartToBox", "InteractionLine">>
      [] keyword = "full" ->
            <<"InteractionLabel", "PotentiallyStartFromBox", "PotentiallyStartToBox",
              "InteractionLine">>
      [] keyword = "self" -> <<"PotentiallyStartFromBox", "SelfInteractionLines">>
      [] keyword = "stop" -> <<"EndBox">>
      [] OTHER -> <<>>

\* The events of sequentialPass in the order its two loops visit them.
RECURSIVE EventsFor(_)
EventsFor(stmts) ==
    IF stmts = <<>> THEN <<>>
    ELSE LET s == Head(stmts)
             evts == EventsRequired(s.Keyword)
         IN  [i \in 1..Len(evts) |-> NewDispatch(evts[i], s)] \o EventsFor(Tail(stmts))

\* InteractionLineZones.RegisterSpaceClaim
RegisterSpaceClaim(zones, sourceLifeline, destLifeline, startY, endY) ==
    Append(zones, NewNoGoZone(NewSegment(startY, endY), sourceLifeline, destLifeline))

\* What a Creator method leaves behind: c.tideMark, c.activityBoxes, c.ilZones.
CreatorResult(tm, bx, zones) == [tideMark |-> tm, boxes |-> bx, noGoZones |-> zones]

\* Creator.interactionLabel
Creator_interactionLabel(tm, s, sz, bx, zones) ==
    LET sourceLifeline == s.ReferencedLifelines[1]
        destLifeline == s.ReferencedLifelines[2]
        firstRowY == tm
        tideMark == tm + Len(s.LabelSegments) * sz.fontHt + sz.InteractionLineTextPadB
    IN  CreatorResult(tideMark, bx,
                      RegisterSpaceClaim(zones, sourceLifeline, destLifeline, firstRowY, tideMark))

\* The line's claim centred on the line: it starts half an arrow above it.
Creator_interactionLineCentred(tm, s, sz, bx, zones) ==
    LET sourceLifeline == s.ReferencedLifelines[1]
        destLifeline == s.ReferencedLifelines[2]
        y == tm - (sz.ArrowHeight \div 2)
        tideMark == tm + (sz.ArrowHeight \div 2) + sz.InteractionLinePadB
    IN  CreatorResult(tideMark, bx,
                      RegisterSpaceClaim(zones, sourceLifeline, destLifeline, y, tideMark))

\* Creator.interactionLine
Creator_interactionLine(tm, s, sz, bx, zones) ==
    LET sourceLifeline == s.ReferencedLifelines[1]
        destLifeline == s.ReferencedLifelines[2]
        y == tm
        tideMark == tm + (sz.ArrowHeight \div 2) + sz.InteractionLinePadB
    IN  CreatorResult(tideMark, bx,
                      RegisterSpaceClaim(zones, sourceLifeline, destLifeline, y, tideMark))

\* Creator.selfInteractionLines
selfInteractionLines(tm, s, sz, bx, zones) ==
    LET bot == tm + sz.SelfLoopHeight
    IN  CreatorResult(bot + sz.InteractionLinePadB, bx, zones)

\* A box started whether or not one is in progress.
potentiallyStartActivityBoxAlways(bx, lifeline, tm, behindTidemarkDelta) ==
    [bx EXCEPT ![lifeline] = startBoxAt(@, tm - behindTidemarkDelta)]

\* Creator.potentiallyStartActivityBox
potentiallyStartActivityBox(bx, lifeline, tm, behindTidemarkDelta) ==
    IF inProgress(bx[lifeline]) THEN bx
    ELSE [bx EXCEPT ![lifeline] = startBoxAt(@, tm - behindTidemarkDelta)]

\* The to box backdated by the overlap like a from box.
potentiallyStartToBoxBackdated(tm, s, sz, bx, zones) ==
    CreatorResult(tm,
                  potentiallyStartActivityBox(bx, s.ReferencedLifelines[2], tm,
                                              sz.ActivityBoxVerticalOverlap),
                  zones)

\* Creator.potentiallyStartToBox
potentiallyStartToBox(tm, s, sz, bx, zones) ==
    CreatorResult(tm, potentiallyStartActivityBox(bx, s.ReferencedLifelines[2], tm, 0), zones)

\* The from box dated the overlap below the tidemark instead of above it.
potentiallyStartFromBoxPostdated(tm, s, sz, bx, zones) ==
    CreatorResult(tm,
                  potentiallyStartActivityBox(bx, s.ReferencedLifelines[1], tm,
                                              0 - sz.ActivityBoxVerticalOverlap),
                  zones)

\* Creator.potentiallyStartFromBox
potentiallyStartFromBox(tm, s, sz, bx, zones) ==
    CreatorResult(tm,
                  potentiallyStartActivityBox(bx, s.ReferencedLifelines[1], tm,
                                              sz.ActivityBoxVerticalOverlap),
                  zones)

\* The box closed at the tidemark instead of the bottom it was given.
finalizeActivityBoxAtTidemark(tm, bx, lifeline, boxBottom) ==
    IF ~inProgress(bx[lifeline]) THEN [tideMark |-> tm, boxes |-> bx]
    ELSE [tideMark |-> boxBottom,
          boxes |-> [bx EXCEPT ![lifeline] = terminateInProgressBoxAt(@, tm)]]

\* The most recent box ended again whether or not it is in progress.
finalizeActivityBoxUnguarded(tm, bx, lifeline, boxBottom) ==
    [tideMark |-> boxBottom,
     boxes |-> [bx EXCEPT ![lifeline] = terminateInProgressBoxAt(@, boxBottom)]]

\* Creator.finalizeActivityBox: skips a lifeline with no box in progress.
finalizeActivityBox(tm, bx, lifeline, boxBottom) ==
    IF ~inProgress(bx[lifeline]) THEN [tideMark |-> tm, boxes |-> bx]
    ELSE [tideMark |-> boxBottom,
          boxes |-> [bx EXCEPT ![lifeline] = terminateInProgressBoxAt(@, boxBottom)]]

\* Creator.endBox
Creator_endBox(tm, s, sz, bx, zones) ==
    LET r == finalizeActivityBox(tm, bx, s.ReferencedLifelines[1], tm)
    IN  CreatorResult(r.tideMark, r.boxes, zones)

\* The loop working out the bottom anew for every lifeline, from the
\* tidemark the lifeline before it left.
RECURSIVE finalizeEachFromTidemark(_, _, _, _)
finalizeEachFromTidemark(tm, bx, order, boxBottom) ==
    IF order = <<>> THEN [tideMark |-> tm, boxes |-> bx]
    ELSE LET r == finalizeActivityBox(tm, bx, Head(order), boxBottom)
         IN  finalizeEachFromTidemark(r.tideMark, r.boxes, Tail(order),
                                      r.tideMark + (boxBottom - tm))

\* The loop of finalizeActivityBoxes over the lifelines in the given order.
RECURSIVE finalizeEach(_, _, _, _)
finalizeEach(tm, bx, order, boxBottom) ==
    IF order = <<>> THEN [tideMark |-> tm, boxes |-> bx]
    ELSE LET r == finalizeActivityBox(tm, bx, Head(order), boxBottom)
         IN  finalizeEach(r.tideMark, r.boxes, Tail(order), boxBottom)

\* The orders in which a map over the lifelines may be iterated.
MapOrders ==
    {o \in [1..Len(allLifelines) -> Lifelines] :
        \A i, j \in 1..Len(allLifelines) : i # j => o[i] # o[j]}

\* The start of sequentialPass: the events the scanner finds for the script.
sequentialPass ==
    /\ impl = "Creator"
    /\ pc = "sequentialPass"
    /\ actions' = EventsFor(statements)
    /\ ip' = 1
    /\ pc' = "forward"
    /\ UNCHANGED <<impl, sizer, statements, tidemark, updatedTidemark, boxes, noGoZones,
                   err, top, bottom, minSegLen, segs, height>>

\* The event graphicsForDrawingEvent is called with next is evt.
CreatorAt(evt) ==
    /\ impl = "Creator"
    /\ pc = "forward"
    /\ ip <= Len(actions)
    /\ actions[ip].fn = evt

\* One call of graphicsForDrawingEvent from the loops of sequentialPass.
CreatorLoop(r) ==
    /\ tidemark' = r.tideMark
    /\ boxes' = r.boxes
    /\ noGoZones' = r.noGoZones
    /\ ip' = ip + 1
    /\ UNCHANGED <<impl, sizer, statements, actions, pc, updatedTidemark, err, top, bottom,
                   minSegLen, segs, height>>

Event_EndBox ==
    /\ CreatorAt("EndBox")
    /\ CreatorLoop(Creator_endBox(tidemark, actions[ip].statement, sizer, boxes, noGoZones))

Event_InteractionLine ==
    /\ CreatorAt("InteractionLine")
    /\ CreatorLoop(Creator_interactionLine(tidemark, actions[ip].statement, sizer, boxes, noGoZones))

Event_InteractionLabel ==
    /\ CreatorAt("InteractionLabel")
    /\ CreatorLoop(Creator_interactionLabel(tidemark, actions[ip].statement, sizer, boxes, noGoZones))

Event_SelfInteractionLines ==
    /\ CreatorAt("SelfInteractionLines")
    /\ CreatorLoop(selfInteractionLines(tidemark, actions[ip].statement, sizer, boxes, noGoZones))

Event_PotentiallyStartFromBox ==
    /\ CreatorAt("PotentiallyStartFromBox")
    /\ CreatorLoop(potentiallyStartFromBox(tidemark, actions[ip].statement, sizer, boxes, noGoZones))

Event_PotentiallyStartToBox ==
    /\ CreatorAt("PotentiallyStartToBox")
    /\ CreatorLoop(potentiallyStartToBox(tidemark, actions[ip].statement, sizer, boxes, noGoZones))

\* An event graphicsForDrawingEvent has no case for: nothing is drawn.
Event_Other ==
    /\ impl = "Creator"
    /\ pc = "forward"
    /\ ip <= Len(actions)
    /\ actions[ip].fn \in {"LifelineTitleBox", "LifelineLine"}
    /\ CreatorLoop(CreatorResult(tidemark, boxes, noGoZones))

(* ------------------------------------------------------------------ *)
(* The passes of Create before and after the forward pass              *)
(* ------------------------------------------------------------------ *)

\* The rows of the title: those of the first title statement, or one row.
findTitleSegments(stmts) ==
    LET titles == SelectSeq(stmts, LAMBDA s : s.Keyword = "title")
    IN  IF titles = <<>> THEN <<"Unknown Title">> ELSE titles[1].LabelSegments

\* Creator.initPass: the frame title box, then the lifeline title boxes.
initPass ==
    /\ pc = "initPass"
    /\ LET afterTitle == sizer.DiagramPadT + sizer.FrameTitleTextPadT
                           + Len(findTitleSegments(statements)) * sizer.fontHt
                           + sizer.FrameTitleTextPadB + sizer.FrameTitleRectPadB
           titleBoxBot == afterTitle + sizer.TitleBoxHeight
       IN  /\ top' = titleBoxBot
           /\ tidemark' = titleBoxBot + sizer.TitleBoxPadB
    /\ pc' = "sequentialPass"
    /\ UNCHANGED <<impl, sizer, statements, actions, ip, updatedTidemark, boxes, noGoZones,
                   err, bottom, minSegLen, segs, height>>

\* Creator.finalizeActivityBoxes: every box still in progress ends at the
\* tidemark plus the overlap; the map of lifelines is visited in any order.
finalizeActivityBoxes ==
    /\ \/ pc = "finalizeActivityBoxes"
       \/ impl = "Creator" /\ pc = "forward" /\ ip > Len(actions)
    /\ \E order \in MapOrders :
          LET boxBottom == tidemark + sizer.ActivityBoxVerticalOverlap
              r == finalizeEach(tidemark, boxes, order, boxBottom)
          IN  /\ boxes' = r.boxes
              /\ tidemark' = boxBottom + sizer.FinalizedActivityBoxesPadB
    /\ pc' = "finalizeLifelines"
    /\ UNCHANGED <<impl, sizer, statements, actions, ip, updatedTidemark, noGoZones, err,
                   top, bottom, minSegLen, segs, height>>

\* The lifeline assembled against a fresh box tracker instead of its own.
finalizeOneFreshTracker(ll, lifelineTop, lifelineBottom, minLen, zones, bx, lifelines) ==
    Assemble(ll, lifelineTop, lifelineBottom, minLen, zones, <<>>, lifelines)

\* Finalizer.finalizeOne: the dashed lines of one lifeline.
finalizeOne(ll, lifelineTop, lifelineBottom, minLen, zones, bx, lifelines) ==
    Assemble(ll, lifelineTop, lifelineBottom, minLen, zones, bx[ll], lifelines)

\* Only the lifelines some zone is tagged with are drawn.
FinalizeTaggedOnly(lifelineTop, lifelineBottom, minLen, zones, bx, lifelines) ==
    [ll \in {lifelines[i] : i \in 1..Len(lifelines)} |->
        IF \E j \in 1..Len(zones) : ll \in {zones[j].source, zones[j].dest}
        THEN finalizeOne(ll, lifelineTop, lifelineBottom, minLen, zones, bx, lifelines)
        ELSE <<>>]

\* Finalizer.Finalize: every lifeline in turn.
Finalize(lifelineTop, lifelineBottom, minLen, zones, bx, lifelines) ==
    [ll \in {lifelines[i] : i \in 1..Len(lifelines)} |->
        finalizeOne(ll, lifelineTop, lifelineBottom, minLen, zones, bx, lifelines)]

\* The lifelines drawn by a Finalizer that uses up the zones it applies.
finalizeLifelinesConsumingZones ==
    /\ pc = "finalizeLifelines"
    /\ impl \in {"Maker", "Creator"}
    /\ bottom' = tidemark
    /\ minSegLen' = sizer.MinSegLen
    /\ segs' = Finalize(top, tidemark, sizer.MinSegLen, noGoZones, boxes, allLifelines)
    /\ noGoZones' = <<>>
    /\ pc' = "finalizeFrame"
    /\ UNCHANGED <<impl, sizer, statements, actions, ip, tidemark, updatedTidemark, boxes,
                   err, top, height>>

\* Creator.finalizeLifelines: the lifelines run from the bottom of their
\* title boxes to the tidemark.
finalizeLifelines ==
    /\ pc = "finalizeLifelines"
    /\ impl \in {"Maker", "Creator"}
    /\ bottom' = tidemark
    /\ minSegLen' = sizer.MinSegLen
    /\ segs' = Finalize(top, tidemark, sizer.MinSegLen, noGoZones, boxes, allLifelines)
    /\ pc' = "finalizeFrame"
    /\ UNCHANGED <<impl, sizer, statements, actions, ip, tidemark, updatedTidemark, boxes,
                   noGoZones, err, top, height>>

\* frameMaker.finalizeFrame
finalizeFrame ==
    /\ pc = "finalizeFrame"
    /\ impl \in {"Maker", "Creator"}
    /\ tidemark' = tidemark + sizer.FrameInternalPadB
    /\ pc' = "finalizeDiagramHeight"
    /\ UNCHANGED <<impl, sizer, statements, actions, ip, updatedTidemark, boxes, noGoZones,
                   err, top, bottom, minSegLen, segs, height>>

\* The height set to the tidemark with no trailing pad.
finalizeDiagramHeightNoPad ==
    /\ pc = "finalizeDiagramHeight"
    /\ height' = tidemark
    /\ pc' = "done"
    /\ UNCHANGED <<impl, sizer, statements, actions, ip, tidemark, updatedTidemark, boxes,
                   noGoZones, err, top, bottom, minSegLen, segs>>

\* Creator.finalizeDiagramHeight
finalizeDiagramHeight ==
    /\ pc = "finalizeDiagramHeight"
    /\ height' = tidemark + sizer.DiagramPadB
    /\ pc' = "done"
    /\ UNCHANGED <<impl, sizer, statements, actions, ip, tidemark, updatedTidemark, boxes,
                   noGoZones, err, top, bottom, minSegLen, segs>>

Next ==
    \/ initPass
    \/ ScanInteractionStatements
    \/ Dispatch_interactionLabel
    \/ Dispatch_selfLabel
    \/ Dispatch_interactionLine
    \/ Dispatch_selfLines
    \/ Dispatch_startToBox
    \/ Dispatch_startFromBox
    \/ Dispatch_endBox
    \/ ScanReturn
    \/ sequentialPass
    \/ Event_EndBox
    \/ Event_InteractionLine
    \/ Event_InteractionLabel
    \/ Event_SelfInteractionLines
    \/ Event_PotentiallyStartFromBox
    \/ Event_PotentiallyStartToBox
    \/ Event_Other
    \/ finalizeActivityBoxes
    \/ finalizeLifelines
    \/ finalizeFrame
    \/ finalizeDiagramHeight

Spec == Init /\ [][Next]_vars


(* ------------------------------------------------------------------ *)
(* The Finalizer on its own: a Finalizer made with NewFinalizer from   *)
(* given zones and box trackers, as the tests of Assemble make them    *)
(* ------------------------------------------------------------------ *)

\* The segments [s, e) with 0 <= s <= e <= MaxCoord.
SegmentSet == {NewSegment(p[1], p[2]) : p \in {q \in (0..MaxCoord) \X (0..MaxCoord) : q[1] <= q[2]}}

\* The zones given to the Finalizer on its own run across all the lanes.
ZoneSet == {NewNoGoZone(seg, "A", "C") : seg \in SegmentSet}

\* The closed boxes a tracker holds after AddStartingAt and TerminateAt.
ClosedBoxSet == {[start |-> seg.start, end |-> seg.end, inProgress |-> FALSE] : seg \in SegmentSet}

\* The sequence with its i-th and (i+1)-th members changing places.
SwapAt(q, i) == [k \in 1..Len(q) |-> IF k = i THEN q[i + 1] ELSE IF k = i + 1 THEN q[i] ELSE q[k]]

\* The lifeline whose tracker holds the given boxes.
BoxLane == "B"

\* The lifeline extents the Finalizer is asked for: all of the coordinates,
\* and an extent that given zones and boxes can stick out of at both ends.
ExtentSet == {<<0, MaxCoord>>, <<1, MaxCoord - 1>>}

\* The thresholds the Finalizer is asked for. Coordinates are whole numbers,
\* so every candidate gap has length 1 or more: 0 and -2 discard nothing, 2
\* discards the gaps of length 1.
MinSegLenSet == {-2, 0, 2}

\* A Finalizer made from the given zones and the given boxes of BoxLane.
NewFinalizer(zones, tracker) ==
    /\ impl = "Finalizer"
    /\ sizer \in {sz \in SizerProfiles : sz.fontHt = 2}
    /\ statements = LaneStatements(3)
    /\ actions = <<>>
    /\ ip = 1
    /\ pc = "Finalize"
    /\ tidemark = 0
    /\ updatedTidemark = 0
    /\ noGoZones = zones
    /\ boxes = [NoBoxes(LaneStatements(3)) EXCEPT ![BoxLane] = tracker]
    /\ err = ""
    /\ top = 0
    /\ bottom = 0
    /\ minSegLen = 0
    /\ segs = NoSegs(statements)
    /\ height = 0

\* Up to MaxItems zones and boxes between them, anywhere in the coordinates.
InitAssemble ==
    \E nz \in 0..MaxItems :
        \E nb \in 0..(MaxItems - nz) :
            \E zones \in [1..nz -> ZoneSet], tracker \in [1..nb -> ClosedBoxSet] :
                NewFinalizer(zones, tracker)

\* The lane pairs a zone can be tagged with: every source and destination.
ZonePairs == {<<x, y>> : x \in {"A", "B", "C"}, y \in {"A", "B", "C"}}

\* Bands of height 1 inside the inner extent.
BandSet == {NewSegment(k, k + 1) : k \in 1..(MaxCoord - 2)}

\* The zones of every lane pair on every band.
TaggedZoneSet == {NewNoGoZone(seg, p[1], p[2]) : seg \in BandSet, p \in ZonePairs}

\* Up to MaxItems zones of any lane pairs, and no boxes.
InitZones ==
    \E nz \in 0..MaxItems :
        \E zones \in [1..nz -> TaggedZoneSet] : NewFinalizer(zones, <<>>)

\* Finalizer.Finalize called on the given zones and boxes, for one of the
\* extents and one of the thresholds.
FinalizeGiven ==
    /\ pc = "Finalize"
    /\ \E extent \in ExtentSet, minLen \in MinSegLenSet :
          /\ top' = extent[1]
          /\ bottom' = extent[2]
          /\ minSegLen' = minLen
          /\ segs' = Finalize(extent[1], extent[2], minLen, noGoZones, boxes, allLifelines)
    /\ pc' = "Finalized"
    /\ UNCHANGED <<impl, sizer, statements, actions, ip, tidemark, updatedTidemark, boxes,
                   noGoZones, err, height>>

\* The same zones and boxes given in another order, and finalized again:
\* two neighbours among the zones, or among the boxes, change places. Every
\* order is reached by such steps.
FinalizePermuted ==
    /\ pc = "Finalized"
    /\ \/ \E i \in 1..(Len(noGoZones) - 1) :
             /\ noGoZones' = SwapAt(noGoZones, i)
             /\ boxes' = boxes
       \/ \E i \in 1..(Len(boxes[BoxLane]) - 1) :
             /\ boxes' = [boxes EXCEPT ![BoxLane] = SwapAt(@, i)]
             /\ noGoZones' = noGoZones
    /\ segs' = Finalize(top, bottom, minSegLen, noGoZones', boxes', allLifelines)
    /\ UNCHANGED <<impl, sizer, statements, actions, ip, pc, tidemark, updatedTidemark,
                   err, top, bottom, minSegLen, height>>

NextAssemble == FinalizeGiven \/ FinalizePermuted

SpecAssemble == InitAssemble /\ [][NextAssemble]_vars

SpecZones == InitZones /\ [][NextAssemble]_vars

(* ------------------------------------------------------------------ *)
(* The BoxTracker on its own: a tracker made with NewBoxTracker and    *)
(* called directly, as the tests of Assemble call it                   *)
(* ------------------------------------------------------------------ *)

\* The lifeline the tracker on its own belongs to.
TrackerLane == "A"

\* NewBoxTracker: no extents. pc holds the method called last, tidemark the
\* y it was called with and err the error it returned.
InitTracker ==
    /\ impl = "BoxTracker"
    /\ sizer \in {sz \in SizerProfiles : sz.fontHt = 2}
    /\ statements = LaneStatements(1)
    /\ actions = <<>>
    /\ ip = 1
    /\ pc = "NewBoxTracker"
    /\ tidemark = 0
    /\ updatedTidemark = 0
    /\ noGoZones = <<>>
    /\ boxes = NoBoxes(LaneStatements(1))
    /\ err = ""
    /\ top = 0
    /\ bottom = 0
    /\ minSegLen = 0
    /\ segs = NoSegs(statements)
    /\ height = 0

\* A call of a tracker method with y: the error and the tracker it leaves.
TrackerCall(method, y, r) ==
    /\ impl = "BoxTracker"
    /\ pc' = method
    /\ tidemark' = y
    /\ err' = r.err
    /\ boxes' = [boxes EXCEPT ![TrackerLane] = r.tracker]
    /\ UNCHANGED <<impl, sizer, statements, actions, ip, updatedTidemark, noGoZones,
                   top, bottom, minSegLen, segs, height>>

\* boxes.AddStartingAt(y), while the tracker stays within MaxItems extents.
CallAddStartingAt ==
    \E y \in 0..MaxCoord :
        /\ Len(boxes[TrackerLane]) < MaxItems \/ HasABoxInProgress(boxes[TrackerLane])
        /\ TrackerCall("AddStartingAt", y, AddStartingAt(boxes[TrackerLane], y))

\* boxes.TerminateAt(y)
CallTerminateAt ==
    \E y \in 0..MaxCoord :
        TrackerCall("TerminateAt", y, TerminateAt(boxes[TrackerLane], y))

NextTracker == CallAddStartingAt \/ CallTerminateAt

SpecTracker == InitTracker /\ [][NextTracker]_vars


(* ------------------------------------------------------------------ *)
(* Properties                                                          *)
(* ------------------------------------------------------------------ *)

\* Two half-open intervals share a point.
Intersects(a, b) == Max(a.start, b.start) < Min(a.end, b.end)

\* Position of a lane in the order the script declares the lanes.
LanePos(ll) == CHOOSE i \in 1..Len(LaneNames) : LaneNames[i] = ll

\* The lanes of the zone span the lifeline, by declaration order.
InSpan(zone, ll) ==
    \/ LanePos(zone.source) <= LanePos(ll) /\ LanePos(ll) <= LanePos(zone.dest)
    \/ LanePos(zone.dest) <= LanePos(ll) /\ LanePos(ll) <= LanePos(zone.source)

\* The lifelines have been drawn.
LifelinesDrawn == pc \in {"finalizeFrame", "finalizeDiagramHeight", "done", "Finalized"}

\* The closed boxes of a lifeline.
ClosedBoxes(ll) == {boxes[ll][j] : j \in {k \in 1..Len(boxes[ll]) : ~boxes[ll][k].inProgress}}

\* The segments of the zones whose lanes span a lifeline.
ZonesOver(ll) == {noGoZones[j].seg : j \in {k \in 1..Len(noGoZones) : InSpan(noGoZones[k], ll)}}

\* The occupied bands of a lifeline: its closed boxes and the zones over it.
Bands(ll) == {NewSegment(b.start, b.end) : b \in ClosedBoxes(ll)} \cup ZonesOver(ll)

\* The segments drawn for a lifeline, as a set.
Drawn(ll) == {segs[ll][i] : i \in 1..Len(segs[ll])}

\* C1: after a complete build (forward pass, closing of the open boxes,
\* lifeline finalization) no dashed segment of a lifeline intersects a closed
\* activity box of that lifeline or a no-go zone applicable to it.
C1_SegmentsAvoidBoxesAndZones ==
    (LifelinesDrawn /\ impl \in {"Maker", "Creator"}) =>
        \A ll \in Lifelines : \A g \in Drawn(ll) : \A band \in Bands(ll) :
            ~Intersects(g, band)

\* A finished build in which a lifeline is cut by a box and by a zone.
C1_Witness ==
    /\ pc = "done"
    /\ \E ll \in Lifelines :
          /\ Len(segs[ll]) >= 2
          /\ \E b \in ClosedBoxes(ll) : b.start < b.end /\ top < b.start
          /\ \E z \in ZonesOver(ll) : z.start < z.end

\* The points k (standing for [k, k+1)) of the lifeline extent.
Points == {k \in 0..MaxCoord : top <= k /\ k < bottom}

Covers(seg, k) == seg.start <= k /\ k < seg.end

\* The merged occupied intervals of a lifeline, as Assemble forms them.
Merged(ll) == MergedOccupied(ll, noGoZones, boxes[ll], allLifelines)

\* The candidate gaps of a lifeline, before the threshold filter.
Candidates(ll) == CandidateGaps(Merged(ll), top, bottom)

SeqToSet(q) == {q[i] : i \in 1..Len(q)}

\* No two members of the sequence share a point.
PairwiseDisjoint(q) == \A i, j \in 1..Len(q) : i # j => ~Intersects(q[i], q[j])

\* C2: merge correctness of Assemble. The returned gaps and the merged
\* occupied intervals are pairwise non-overlapping, and every point of
\* [top, bottom) lies in a returned gap or in a merged occupied interval,
\* except the points of candidate gaps shorter than minSegLen, which are the
\* only ones left uncovered.
C2_MergeCorrectness ==
    pc = "Finalized" =>
        \A ll \in Lifelines :
            LET merged == Merged(ll)
                gaps == Drawn(ll)
                bands == Bands(ll)
                short == {c \in SeqToSet(CandidateGaps(merged, top, bottom)) :
                             Length(c) < minSegLen}
            IN  /\ PairwiseDisjoint(segs[ll] \o merged)
                /\ \A g \in gaps : \A band \in bands : ~Intersects(g, band)
                /\ \A k \in Points :
                      LET inGap == \E g \in gaps : Covers(g, k)
                          inBand == \E band \in bands : Covers(band, k)
                          inShort == \E c \in short : Covers(c, k)
                      IN  /\ inGap \/ inBand \/ inShort
                          /\ inShort => ~inGap /\ ~inBand
                          /\ inBand <=> \E m \in SeqToSet(merged) : Covers(m, k)

\* A lifeline with a zone and a box apart from each other, and three gaps.
C2_Witness ==
    /\ pc = "Finalized"
    /\ Len(noGoZones) = 1
    /\ Len(boxes[BoxLane]) = 1
    /\ Len(segs[BoxLane]) + Len(SelectSeq(Candidates(BoxLane), LAMBDA c : Length(c) < minSegLen)) = 3
    /\ Len(Merged(BoxLane)) = 2

\* C3: order independence of Assemble. Handing over the same zones and box
\* extents in another order leaves the returned segments as they were.
C3_OrderIndependence ==
    [][(pc = "Finalized" /\ pc' = "Finalized") => segs' = segs]_vars

\* Two different zones given latest first, each cutting the lifeline.
C3_Witness ==
    /\ pc = "Finalized"
    /\ Len(noGoZones) = 2
    /\ noGoZones[2].seg.end < noGoZones[1].seg.start
    /\ noGoZones[2].seg.start < noGoZones[2].seg.end
    /\ \A i \in 1..2 : InSpan(noGoZones[i], "B")
    /\ Len(segs["B"]) = 3

\* The zones without the j-th.
WithoutZone(j) == [i \in 1..(Len(noGoZones) - 1) |-> IF i < j THEN noGoZones[i] ELSE noGoZones[i + 1]]

\* C4: a zone tagged (X, Y) occupies lifeline L exactly when L lies between
\* X and Y inclusive in declaration order, whichever of X and Y is the source:
\* then no segment of L intersects the zone; a lifeline outside the span is
\* drawn as if the zone were not registered.
C4_ZoneApplicability ==
    pc = "Finalized" =>
        \A ll \in Lifelines : \A j \in 1..Len(noGoZones) :
            IF InSpan(noGoZones[j], ll)
            THEN \A g \in Drawn(ll) : ~Intersects(g, noGoZones[j].seg)
            ELSE segs[ll] = Assemble(ll, top, bottom, minSegLen, WithoutZone(j),
                                     boxes[ll], allLifelines)

\* A zone from C to A that cuts A, B and C, and a zone on B alone that
\* cuts B but neither A nor C.
C4_Witness ==
    /\ pc = "Finalized"
    /\ top = 0
    /\ minSegLen = 0
    /\ Len(noGoZones) = 2
    /\ noGoZones[1].source = "C" /\ noGoZones[1].dest = "A"
    /\ noGoZones[2].source = "B" /\ noGoZones[2].dest = "B"
    /\ noGoZones[1].seg.end <= noGoZones[2].seg.start
    /\ segs["A"] = segs["C"]
    /\ segs["A"] # segs["B"]
    /\ \E g \in Drawn("A") : Intersects(g, noGoZones[2].seg)
    /\ \A g \in Drawn("B") : ~Intersects(g, noGoZones[2].seg)

\* The occupied intervals of a lifeline in sorted order.
SortedOccupied(ll) == SortSegs(Occupied(ll, noGoZones, boxes[ll], allLifelines))

\* C5: two occupied intervals a and b, a first in sorted order, with
\* b.start <= a.end (overlapping or only touching) are merged into the single
\* interval [a.start, max(a.end, b.end)]; no segment is returned between them.
C5_OverlappingOrTouchingMerge ==
    pc = "Finalized" =>
        \A ll \in Lifelines :
            LET occ == SortedOccupied(ll)
            IN  Len(occ) = 2 /\ occ[2].start <= occ[1].end =>
                    /\ Merged(ll) = <<NewSegment(occ[1].start, Max(occ[1].end, occ[2].end))>>
                    /\ \A g \in Drawn(ll) :
                          ~Intersects(g, NewSegment(occ[1].start, Max(occ[1].end, occ[2].end)))
                    /\ \A g \in Drawn(ll) :
                          g.end <= occ[1].start \/ g.start >= Max(occ[1].end, occ[2].end)

\* A zone and a box that only touch, and a zone inside a longer zone.
C5_Witness ==
    /\ pc = "Finalized"
    /\ LET occ == SortedOccupied("B")
       IN  /\ Len(occ) = 2
           /\ occ[1].start < occ[1].end
           /\ occ[2].start < occ[2].end
           /\ \/ occ[2].start = occ[1].end
              \/ occ[2].end < occ[1].end
           /\ Len(segs["B"]) = 2

\* C6: the threshold filter of Assemble. A candidate gap of length exactly
\* minSegLen is returned, one strictly shorter is not, and the gaps that are
\* returned are the remaining candidates, unchanged and in their order.
C6_ThresholdFilter ==
    pc = "Finalized" =>
        \A ll \in Lifelines :
            LET candidates == Candidates(ll)
                gaps == Drawn(ll)
            IN  /\ \A c \in SeqToSet(candidates) :
                      /\ Length(c) = minSegLen => c \in gaps
                      /\ Length(c) < minSegLen => c \notin gaps
                /\ segs[ll] = SelectSeq(candidates, LAMBDA c : ~(Length(c) < minSegLen))

\* One candidate gap of exactly minSegLen is kept next to one that is dropped.
C6_Witness ==
    /\ pc = "Finalized"
    /\ minSegLen = 2
    /\ \E c \in SeqToSet(Candidates("B")) : Length(c) = 2 /\ c \in Drawn("B")
    /\ \E c \in SeqToSet(Candidates("B")) : Length(c) = 1 /\ c \notin Drawn("B")

\* An action of the forward pass is about to run.
ForwardStep == pc = "forward" /\ ip <= Len(actions)

\* The tidemark the action that ran last handed back.
Returned == IF impl = "Maker" THEN updatedTidemark ELSE tidemark

InProgressCount(bx, ll) == Cardinality({k \in 1..Len(bx[ll]) : bx[ll][k].inProgress})

\* C8: at every point of the build each lifeline has at most one activity
\* box in progress.
C8_AtMostOneBoxInProgress ==
    \A ll \in Lifelines : InProgressCount(boxes, ll) <= 1

\* A lifeline whose box was stopped and that has a new box in progress.
C8_Witness ==
    /\ pc = "forward"
    /\ \E ll \in Lifelines :
          /\ Len(boxes[ll]) = 2
          /\ ~boxes[ll][1].inProgress
          /\ boxes[ll][2].inProgress

\* C9: the boxes of one lifeline are in non-decreasing start order and do
\* not overlap: a box opened after a stop starts at or after the end of the
\* box the stop closed, also when it is opened backdated by the overlap.
C9_BoxesOrderedAndDisjoint ==
    \A ll \in Lifelines : \A i, j \in 1..Len(boxes[ll]) :
        i < j =>
            /\ boxes[ll][i].start <= boxes[ll][j].start
            /\ ~boxes[ll][i].inProgress => boxes[ll][i].end <= boxes[ll][j].start

\* The functions that potentially open a box.
IsStart(fn) ==
    fn \in {"startToBox", "startFromBox", "PotentiallyStartToBox", "PotentiallyStartFromBox"}

\* The lifeline whose box a dispatch potentially opens.
StartTarget(d) ==
    IF d.fn \in {"startToBox", "PotentiallyStartToBox"}
    THEN d.statement.ReferencedLifelines[2]
    ELSE d.statement.ReferencedLifelines[1]

\* C10: potentially opening a box is idempotent. After the call the lifeline
\* has exactly one box in progress, and a call made while a box is in
\* progress is a no-op that leaves the boxes of the lifeline, and so the start
\* set by the first call, as they were.
C10_PotentiallyOpenIdempotent ==
    [][(ForwardStep /\ IsStart(actions[ip].fn)) =>
          LET ll == StartTarget(actions[ip])
          IN  /\ InProgressCount(boxes', ll) = 1
              /\ InProgressCount(boxes, ll) = 1 =>
                    /\ boxes'[ll] = boxes[ll]
                    /\ err' = ""
                    /\ Returned' = tidemark]_vars

\* A potentially-open call has just run on a lifeline whose only box was
\* opened by an earlier call, further up than this call could have set it.
C10_Witness ==
    /\ pc = "forward"
    /\ ip > 1
    /\ IsStart(actions[ip - 1].fn)
    /\ LET ll == StartTarget(actions[ip - 1])
       IN  /\ Len(boxes[ll]) = 1
           /\ boxes[ll][1].inProgress
           /\ boxes[ll][1].start < tidemark - sizer.ActivityBoxVerticalOverlap

\* The tracker called directly.
tracker == boxes[TrackerLane]

\* The most recently added extent has no end.
BoxOpen(t) == Len(t) > 0 /\ t[Len(t)].inProgress

StopWithoutBox ==
    /\ ForwardStep
    /\ impl = "Maker"
    /\ actions[ip].fn = "endBox"
    /\ ~BoxOpen(boxes[actions[ip].statement.ReferencedLifelines[1]])

AtLabel == ForwardStep /\ actions[ip].fn \in {"interactionLabel", "InteractionLabel"}

\* The action about to run draws the line of a two-lane interaction.
AtLine == ForwardStep /\ actions[ip].fn \in {"interactionLine", "InteractionLine"}

\* The zone a step registers for the band it crossed, tagged with the lanes
\* of the statement being processed.
BandClaimed ==
    LET s == actions[ip].statement
    IN  [seg |-> [start |-> tidemark, end |-> tidemark'],
         source |-> s.ReferencedLifelines[1],
         dest |-> s.ReferencedLifelines[2]]

\* The number of full and dash statements of a script.
Interactions(stmts) ==
    Cardinality({i \in 1..Len(stmts) : stmts[i].Keyword \in {"full", "dash"}})

\* C14: every full or dash interaction from S to D registers two zones
\* tagged (S, D): the label step appends the zone from the tidemark before
\* the label to the tidemark after it, the line step appends the zone from
\* the tidemark before the line to the tidemark after it, no other step of
\* the forward pass touches the zones, and a forward pass that ran to its
\* end holds two zones for each such statement.
C14_TwoZonesPerInteraction ==
    [][/\ (AtLabel \/ AtLine) => noGoZones' = Append(noGoZones, BandClaimed)
       /\ ~(AtLabel \/ AtLine) => noGoZones' = noGoZones
       /\ (pc = "forward" /\ pc' \notin {"forward", "failed"}) =>
             Len(noGoZones) = 2 * Interactions(statements)]_vars

\* A finished build of a script with a full interaction whose label band and
\* line band, both of positive height, were registered back to back.
C14_Witness ==
    /\ pc = "done"
    /\ \E i \in 1..Len(statements) : statements[i].Keyword = "full"
    /\ Len(noGoZones) >= 2
    /\ noGoZones[1].seg.start < noGoZones[1].seg.end
    /\ noGoZones[1].seg.end = noGoZones[2].seg.start
    /\ noGoZones[2].seg.start < noGoZones[2].seg.end
    /\ noGoZones[1].source = noGoZones[2].source
    /\ noGoZones[1].dest = noGoZones[2].dest
    /\ noGoZones[1].source # noGoZones[1].dest

\* The forward pass ran over every action without an error.
ForwardDone ==
    \/ pc = "forward" /\ ip > Len(actions)
    \/ pc \in {"finalizeActivityBoxes", "finalizeLifelines", "finalizeFrame",
               "finalizeDiagramHeight", "done"}

\* C15: processing a self statement on lane A registers a zone tagged
\* (A, A): once the forward pass is over, every self statement of the script
\* has a zone whose source and destination are both its lane.
C15_SelfRegistersZone ==
    ForwardDone =>
        \A i \in 1..Len(statements) :
            statements[i].Keyword = "self" =>
                \E j \in 1..Len(noGoZones) :
                    /\ noGoZones[j].source = statements[i].ReferencedLifelines[1]
                    /\ noGoZones[j].dest = statements[i].ReferencedLifelines[1]

\* The zone is tagged with one lane twice, as for a self interaction.
OneLaneZone(zone) == zone.source = zone.dest

\* C16: a zone tagged (A, A) is applicable to lifeline A only: no segment
\* of A intersects the zone, A is not drawn as it would be without the zone
\* when the zone lies inside what would otherwise be drawn, and every other
\* lifeline is drawn as if the zone were not registered.
C16_OneLaneZoneCutsItsLaneOnly ==
    pc = "Finalized" =>
        \A j \in 1..Len(noGoZones) :
            OneLaneZone(noGoZones[j]) =>
                LET ll == noGoZones[j].source
                    without == Assemble(ll, top, bottom, minSegLen, WithoutZone(j),
                                        boxes[ll], allLifelines)
                IN  /\ \A g \in Drawn(ll) : ~Intersects(g, noGoZones[j].seg)
                    /\ (\E i \in 1..Len(without) : Intersects(without[i], noGoZones[j].seg))
                          => segs[ll] # without
                    /\ \A other \in Lifelines \ {ll} :
                          segs[other] = Assemble(other, top, bottom, minSegLen, WithoutZone(j),
                                                 boxes[other], allLifelines)

\* A single zone tagged (B, B): B is drawn in two pieces around it, A and C
\* in one piece through it.
C16_Witness ==
    /\ pc = "Finalized"
    /\ Len(noGoZones) = 1
    /\ noGoZones[1].source = "B" /\ noGoZones[1].dest = "B"
    /\ Len(segs["B"]) = 2
    /\ segs["B"][1].end = noGoZones[1].seg.start
    /\ segs["B"][2].start = noGoZones[1].seg.end
    /\ Len(segs["A"]) = 1 /\ Intersects(segs["A"][1], noGoZones[1].seg)
    /\ Len(segs["C"]) = 1 /\ Intersects(segs["C"][1], noGoZones[1].seg)

LabelFns == {"interactionLabel", "InteractionLabel"}

FromBoxFns == {"startFromBox", "PotentiallyStartFromBox"}

ToBoxFns == {"startToBox", "PotentiallyStartToBox"}

LineFns == {"interactionLine", "InteractionLine"}

\* The actions from position i on are those of one statement, with functions
\* of the given kinds in the given order.
RunsFrom(i, kinds) ==
    /\ i >= 1
    /\ i + Len(kinds) - 1 <= Len(actions)
    /\ \A k \in 1..Len(kinds) :
          /\ actions[i + k - 1].fn \in kinds[k]
          /\ actions[i + k - 1].statement = actions[i].statement

\* The step opened a box on the lifeline at the given start, or found one in
\* progress and left it alone; either way the tidemark stays.
OpensBoxAt(ll, y) ==
    /\ err' = ""
    /\ tidemark' = tidemark
    /\ Returned' = tidemark
    /\ IF BoxOpen(boxes[ll])
       THEN boxes' = boxes
       ELSE /\ Len(boxes'[ll]) = Len(boxes[ll]) + 1
            /\ BoxOpen(boxes'[ll])
            /\ boxes'[ll][Len(boxes'[ll])].start = y
            /\ \A other \in Lifelines \ {ll} : boxes'[other] = boxes[other]

\* The step drew something: it advanced the tidemark and opened no box.
DrawsAndAdvances ==
    /\ err' = ""
    /\ tidemark' >= tidemark
    /\ Returned' = tidemark'
    /\ boxes' = boxes

\* The zone registered last ends at the tidemark: nothing has advanced the
\* tidemark since the label or line that registered it.
JustAfterBand == Len(noGoZones) > 0 /\ noGoZones[Len(noGoZones)].seg.end = tidemark

FullOrder == <<LabelFns, FromBoxFns, ToBoxFns, LineFns>>

\* C17: the actions of a full interaction from S to D run in the order
\* label, potentially open the box of S, potentially open the box of D, line.
\* The label and the line advance the tidemark; the box of S is dated at the
\* tidemark left by the label less the overlap, the box of D at that
\* tidemark, and the line is drawn from that same tidemark.
C17_FullOrder ==
    [][(ForwardStep /\ actions[ip].statement.Keyword = "full") =>
          LET fn == actions[ip].fn
              S == actions[ip].statement.ReferencedLifelines[1]
              D == actions[ip].statement.ReferencedLifelines[2]
          IN  CASE fn \in LabelFns -> RunsFrom(ip, FullOrder) /\ DrawsAndAdvances
                [] fn \in FromBoxFns ->
                      /\ RunsFrom(ip - 1, FullOrder)
                      /\ JustAfterBand
                      /\ OpensBoxAt(S, tidemark - sizer.ActivityBoxVerticalOverlap)
                [] fn \in ToBoxFns ->
                      /\ RunsFrom(ip - 2, FullOrder)
                      /\ JustAfterBand
                      /\ OpensBoxAt(D, tidemark)
                [] fn \in LineFns ->
                      /\ RunsFrom(ip - 3, FullOrder)
                      /\ JustAfterBand
                      /\ DrawsAndAdvances
                [] OTHER -> FALSE]_vars

\* The line of a full interaction has just been drawn, and both of its
\* boxes were opened by it: the box of D starts where the label band ends
\* and the line band begins, the box of S the overlap above that.
C17_Witness ==
    /\ pc = "forward"
    /\ ip > 4
    /\ RunsFrom(ip - 4, FullOrder)
    /\ actions[ip - 1].statement.Keyword = "full"
    /\ Len(noGoZones) >= 2
    /\ LET S == actions[ip - 1].statement.ReferencedLifelines[1]
           D == actions[ip - 1].statement.ReferencedLifelines[2]
           label == noGoZones[Len(noGoZones) - 1].seg
           line == noGoZones[Len(noGoZones)].seg
       IN  /\ label.start < label.end
           /\ line.start < line.end
           /\ Len(boxes[S]) = 1 /\ BoxOpen(boxes[S])
           /\ Len(boxes[D]) = 1 /\ BoxOpen(boxes[D])
           /\ boxes[D][1].start = label.end
           /\ boxes[D][1].start = line.start
           /\ boxes[S][1].start = label.end - sizer.ActivityBoxVerticalOverlap

DashOrder == <<LabelFns, ToBoxFns, LineFns>>

\* C18: the actions of a dash interaction from S to D run in the order
\* label, potentially open the box of D at the tidemark left by the label,
\* line. No action of a dash statement touches the boxes of its source S.
C18_DashOrder ==
    [][(ForwardStep /\ actions[ip].statement.Keyword = "dash") =>
          LET fn == actions[ip].fn
              S == actions[ip].statement.ReferencedLifelines[1]
              D == actions[ip].statement.ReferencedLifelines[2]
          IN  /\ boxes'[S] = boxes[S]
              /\ CASE fn \in LabelFns -> RunsFrom(ip, DashOrder) /\ DrawsAndAdvances
                   [] fn \in ToBoxFns ->
                         /\ RunsFrom(ip - 1, DashOrder)
                         /\ JustAfterBand
                         /\ OpensBoxAt(D, tidemark)
                   [] fn \in LineFns ->
                         /\ RunsFrom(ip - 2, DashOrder)
                         /\ JustAfterBand
                         /\ DrawsAndAdvances
                   [] OTHER -> FALSE]_vars

\* The line of a dash interaction has just been drawn: its destination has
\* a box opened where the label band ends, its source has no box at all.
C18_Witness ==
    /\ pc = "forward"
    /\ ip > 3
    /\ RunsFrom(ip - 3, DashOrder)
    /\ actions[ip - 1].statement.Keyword = "dash"
    /\ Len(noGoZones) >= 2
    /\ LET S == actions[ip - 1].statement.ReferencedLifelines[1]
           D == actions[ip - 1].statement.ReferencedLifelines[2]
           label == noGoZones[Len(noGoZones) - 1].seg
       IN  /\ label.start < label.end
           /\ boxes[S] = <<>>
           /\ Len(boxes[D]) = 1 /\ BoxOpen(boxes[D])
           /\ boxes[D][1].start = label.end

\* C19: for a self statement on lane A the box of A is potentially opened
\* before the statement advances the tidemark: whenever a step of the
\* statement moves the tidemark a box of A is already in progress, and the
\* step that potentially opens the box dates a new box at the tidemark less
\* the overlap without moving the tidemark.
C19_SelfOpensBoxFirst ==
    [][(ForwardStep /\ actions[ip].statement.Keyword = "self") =>
          LET A == actions[ip].statement.ReferencedLifelines[1]
          IN  /\ tidemark' # tidemark => BoxOpen(boxes[A])
              /\ actions[ip].fn \in FromBoxFns =>
                    OpensBoxAt(A, tidemark - sizer.ActivityBoxVerticalOverlap)]_vars

EndBoxFns == {"endBox", "EndBox"}

\* C20: a stop on lane A that has a box in progress sets the end of that
\* box to the tidemark current at the stop, leaves the rest of the boxes as
\* they were, and advances the tidemark by the trailing pad of a stopped box.
C20_StopClosesBoxAndAdvances ==
    [][(/\ ForwardStep
        /\ actions[ip].fn \in EndBoxFns
        /\ BoxOpen(boxes[actions[ip].statement.ReferencedLifelines[1]])) =>
          LET A == actions[ip].statement.ReferencedLifelines[1]
              n == Len(boxes[A])
          IN  /\ err' = ""
              /\ boxes' = [boxes EXCEPT ![A][n] =
                             [start |-> boxes[A][n].start, end |-> tidemark,
                              inProgress |-> FALSE]]
              /\ tidemark' = tidemark + sizer.IndividualStoppedBoxPadB
              /\ Returned' = tidemark']_vars

\* C21: the actions that potentially open a from box or a to box return the
\* tidemark they were given, without an error, whether or not they open a
\* box; a newly opened from box starts at the tidemark less the overlap, a
\* newly opened to box exactly at the tidemark, and a box in progress is
\* left alone.
C21_StartActionsKeepTidemark ==
    [][(ForwardStep /\ IsStart(actions[ip].fn)) =>
          LET d == actions[ip]
              ll == StartTarget(d)
              y == IF d.fn \in FromBoxFns
                   THEN tidemark - sizer.ActivityBoxVerticalOverlap
                   ELSE tidemark
          IN  /\ err' = ""
              /\ pc' = "forward"
              /\ Returned' = tidemark
              /\ tidemark' = tidemark
              /\ noGoZones' = noGoZones
              /\ boxes' = IF BoxOpen(boxes[ll])
                          THEN boxes
                          ELSE [boxes EXCEPT ![ll] = Append(@, [start |-> y, end |-> -1,
                                                               inProgress |-> TRUE])]]_vars

\* A to box has just been opened at the tidemark, right after a from box
\* was opened the overlap above it, and the tidemark is where it was.
C21_Witness ==
    /\ pc = "forward"
    /\ ip > 2
    /\ actions[ip - 1].fn \in ToBoxFns
    /\ actions[ip - 2].fn \in FromBoxFns
    /\ sizer.ActivityBoxVerticalOverlap > 0
    /\ LET S == actions[ip - 1].statement.ReferencedLifelines[1]
           D == actions[ip - 1].statement.ReferencedLifelines[2]
       IN  /\ Len(boxes[S]) = 2 /\ BoxOpen(boxes[S])
           /\ boxes[S][2].start = tidemark - sizer.ActivityBoxVerticalOverlap
           /\ Len(boxes[D]) = 1 /\ BoxOpen(boxes[D])
           /\ boxes[D][1].start = tidemark
           /\ Returned = tidemark

\* A statement that asks for nothing in the forward pass.
NoAction(s) == s.Keyword \in {"lane", "title"}

\* The actions from k on belong, group by group, to the statements after
\* statement i in input order, used being the functions of the group of
\* statement i met so far: no group is split, repeated or out of order, and
\* only lane and title statements are passed over.
RECURSIVE Covered(_, _, _)
Covered(k, i, used) ==
    IF k > Len(actions)
    THEN \A j \in (i + 1)..Len(statements) : NoAction(statements[j])
    ELSE IF i >= 1 /\ actions[k].statement = statements[i] /\ actions[k].fn \notin used
    THEN Covered(k + 1, i, used \cup {actions[k].fn})
    ELSE LET nxt == {j \in (i + 1)..Len(statements) : statements[j] = actions[k].statement}
         IN  /\ nxt # {}
             /\ LET j == CHOOSE m \in nxt : \A n \in nxt : m <= n
                IN  /\ \A m \in (i + 1)..(j - 1) : NoAction(statements[m])
                    /\ Covered(k + 1, j, {actions[k].fn})

ClosingStep == pc # "finalizeLifelines" /\ pc' = "finalizeLifelines"

\* The boxes of a lifeline with the one in progress, if any, ended at y.
ClosedAt(t, y) ==
    IF BoxOpen(t)
    THEN [t EXCEPT ![Len(t)] = [start |-> t[Len(t)].start, end |-> y, inProgress |-> FALSE]]
    ELSE t

\* C23: after the forward pass every lifeline whose box is still in
\* progress has that box closed at the final tidemark of the forward pass
\* plus the overlap, the other boxes staying as they are; so no lifeline has
\* a box in progress when its segments are assembled.
C23_OpenBoxesClosedAtEnd ==
    [][/\ ClosingStep =>
             \A ll \in Lifelines :
                 boxes'[ll] = ClosedAt(boxes[ll], tidemark + sizer.ActivityBoxVerticalOverlap)
       /\ pc = "finalizeLifelines" =>
             /\ \A ll \in Lifelines : ~BoxOpen(boxes[ll])
             /\ boxes' = boxes]_vars

\* Two lifelines whose boxes were closed together, the overlap below the
\* end of the last band of the forward pass, and one whose box a stop had
\* closed before.
C23_Witness ==
    /\ pc = "finalizeLifelines"
    /\ sizer.ActivityBoxVerticalOverlap > 0
    /\ Len(noGoZones) > 0
    /\ \E a, b \in Lifelines :
          /\ a # b
          /\ Len(boxes[a]) = 1 /\ Len(boxes[b]) = 1
          /\ boxes[a][1].end < boxes[b][1].end
          /\ boxes[b][1].end = noGoZones[Len(noGoZones)].seg.end
                                  + sizer.ActivityBoxVerticalOverlap
          /\ tidemark = boxes[b][1].end + sizer.FinalizedActivityBoxesPadB

\* What the box bookkeeping of the build returns as the extents of a
\* lifeline: BoxTracker.Extents for the Maker, boxExtentsAsSegments for the
\* Creator.
ExtentsReturned(ll) ==
    IF impl = "Creator" THEN boxExtentsAsSegments(boxes[ll]) ELSE Extents(boxes[ll])

\* C24: the extents returned at any time are the boxes whose end has been
\* set, in order: a box in progress is not among them, and no returned
\* segment has an undefined end.
C24_ExtentsOnlyClosedBoxes ==
    \A ll \in Lifelines :
        LET closed == SelectSeq(boxes[ll], LAMBDA b : ~b.inProgress)
            returned == ExtentsReturned(ll)
        IN  /\ Len(returned) = Len(closed)
            /\ \A i \in 1..Len(returned) :
                  /\ returned[i].start = closed[i].start
                  /\ returned[i].end = closed[i].end
                  /\ returned[i].end # -1

\* What the box bookkeeping of the build answers when asked whether the
\* lifeline has a box in progress: BoxTracker.HasABoxInProgress for the
\* Maker, lifelineBoxes.inProgress for the Creator.
InProgressIn(bx, ll) ==
    IF impl = "Creator" THEN inProgress(bx[ll]) ELSE HasABoxInProgress(bx[ll])

\* The lifeline has at least one extent and the end of the most recently
\* added one has not been set.
LastExtentHasNoEnd(bx, ll) == Len(bx[ll]) > 0 /\ bx[ll][Len(bx[ll])].end = -1

\* The step ended a box of the lifeline: a stop that succeeded on it, or the
\* closing of the boxes after the forward pass.
Terminated(ll) ==
    \/ /\ ForwardStep
       /\ actions[ip].fn \in EndBoxFns
       /\ actions[ip].statement.ReferencedLifelines[1] = ll
       /\ err' = ""
       /\ boxes'[ll] # boxes[ll]
    \/ ClosingStep

\* C25: a box is reported in progress exactly when the lifeline has an
\* extent and the most recently added one has no end; none is reported on a
\* fresh tracker, nor after a successful terminate.
C25_HasBoxInProgress ==
    [][\A ll \in Lifelines :
          /\ InProgressIn(boxes, ll) <=> LastExtentHasNoEnd(boxes, ll)
          /\ InProgressIn(boxes', ll) <=> LastExtentHasNoEnd(boxes', ll)
          /\ boxes[ll] = <<>> => ~InProgressIn(boxes, ll)
          /\ Terminated(ll) => ~InProgressIn(boxes', ll)]_vars

\* A stop has just ended the second box of a lifeline in a Creator build:
\* the lifeline had a box in progress before the stop and has none now.
C25_Witness ==
    /\ impl = "Creator"
    /\ pc = "forward"
    /\ ip > 1
    /\ actions[ip - 1].fn = "EndBox"
    /\ LET a == actions[ip - 1].statement.ReferencedLifelines[1]
       IN  /\ Len(boxes[a]) = 2
           /\ boxes[a][1].end < boxes[a][2].end
           /\ boxes[a][2].end = tidemark
           /\ ~inProgress(boxes[a])

\* C26: the segments Assemble returns for a lifeline are in ascending order
\* and pairwise disjoint: each one ends at or before the start of the next,
\* and starts before it.
C26_SegmentsAscendingDisjoint ==
    pc = "Finalized" =>
        \A ll \in Lifelines :
            \A i \in 1..(Len(segs[ll]) - 1) :
                /\ segs[ll][i].end <= segs[ll][i + 1].start
                /\ segs[ll][i].start < segs[ll][i + 1].start

\* Two zones given the lower one last, as in TestItSortsTheGaps, and a
\* lifeline drawn in pieces above, between and below them.
C26_Witness ==
    /\ pc = "Finalized"
    /\ Len(noGoZones) = 2
    /\ noGoZones[2].seg.end < noGoZones[1].seg.start
    /\ Len(segs["B"]) = 3
    /\ segs["B"][1].end = noGoZones[2].seg.start
    /\ segs["B"][2].start = noGoZones[2].seg.end
    /\ segs["B"][2].end = noGoZones[1].seg.start
    /\ segs["B"][3].start = noGoZones[1].seg.end

\* C27: a lifeline with no closed box and no zone over it is drawn as the
\* single segment from top to bottom, provided bottom - top is not below the
\* threshold (and the extent is not empty); this holds for every declared
\* lifeline, also one that no statement references.
C27_FreeLifelineDrawnWhole ==
    (LifelinesDrawn /\ impl \in {"Maker", "Creator"}) =>
        \A ll \in Lifelines :
            (/\ ClosedBoxes(ll) = {}
             /\ ZonesOver(ll) = {}
             /\ bottom > top
             /\ bottom - top >= minSegLen) =>
                segs[ll] = <<NewSegment(top, bottom)>>

\* A finished build with a lifeline that no statement references and no
\* interaction crosses, drawn whole, next to one that is drawn in pieces.
C27_Witness ==
    /\ pc = "done"
    /\ \E free, busy \in Lifelines :
          /\ \A i \in 1..Len(statements) :
                statements[i].Keyword # "lane" =>
                    \A k \in 1..Len(statements[i].ReferencedLifelines) :
                        statements[i].ReferencedLifelines[k] # free
          /\ boxes[free] = <<>>
          /\ ZonesOver(free) = {}
          /\ segs[free] = <<NewSegment(top, bottom)>>
          /\ top < bottom
          /\ Len(segs[busy]) >= 2

\* C28: with a threshold of zero or less Assemble raises no error and
\* discards no candidate gap: the segments of every lifeline are its
\* candidate gaps, each of them non-empty.
C28_NoThresholdKeepsEveryGap ==
    (pc = "Finalized" /\ minSegLen <= 0) =>
        /\ err = ""
        /\ \A ll \in Lifelines :
              /\ segs[ll] = Candidates(ll)
              /\ \A c \in SeqToSet(Candidates(ll)) : Length(c) > 0 /\ c \in Drawn(ll)

\* A negative threshold, and a lifeline drawn with a piece of length 1
\* that a threshold of the same magnitude would have discarded.
C28_Witness ==
    /\ pc = "Finalized"
    /\ minSegLen < 0
    /\ Len(segs["B"]) >= 2
    /\ \E g \in Drawn("B") : Length(g) = 1 /\ Length(g) < 0 - minSegLen

\* The end of every box of every lifeline.
BoxEnds == UNION {{boxes[ll][i].end : i \in 1..Len(boxes[ll])} : ll \in Lifelines}

\* The end of every segment drawn for every lifeline.
SegmentEnds == UNION {{g.end : g \in Drawn(ll)} : ll \in Lifelines}

\* C29: the diagram height of a build is the final tidemark, after the
\* advances of the forward pass, of the closing of the boxes and of the
\* frame, plus the bottom pad of the diagram; it is at or below no end of a
\* box or of a lifeline segment.
C29_HeightIsFinalTidemarkPlusPad ==
    [][/\ pc' = "done" =>
             /\ height' = tidemark' + sizer.DiagramPadB
             /\ tidemark' = bottom + sizer.FrameInternalPadB
             /\ \A y \in BoxEnds \cup SegmentEnds : y <= height'
             /\ \A j \in 1..Len(noGoZones) : noGoZones[j].seg.end <= height'
       /\ pc = "finalizeLifelines" =>
             /\ \A ll \in Lifelines : ~BoxOpen(boxes[ll])
             /\ bottom' = tidemark
             /\ \A j \in 1..Len(noGoZones) : noGoZones[j].seg.end <= tidemark
       /\ pc = "done" => height' = height]_vars

\* A finished build with a box and a lifeline segment that end below the
\* height, the height being the tidemark and a pad.
C29_Witness ==
    /\ pc = "done"
    /\ sizer.DiagramPadB > 0
    /\ height = tidemark + sizer.DiagramPadB
    /\ \E ll \in Lifelines :
          /\ Len(boxes[ll]) >= 1
          /\ boxes[ll][Len(boxes[ll])].end + sizer.FinalizedActivityBoxesPadB = bottom
          /\ Len(segs[ll]) >= 1
          /\ segs[ll][Len(segs[ll])].end = bottom
          /\ bottom < height

\* The sequence p is the beginning of the sequence q.
IsPrefix(p, q) == Len(p) <= Len(q) /\ SubSeq(q, 1, Len(p)) = p

\* C30: the registry of zones is append-only during the forward pass: after
\* every action the zones registered before it are still there, unchanged
\* and in the same places, with any new zone after them; nothing after the
\* forward pass changes the registry either.
C30_ZonesAppendOnly ==
    [][/\ IsPrefix(noGoZones, noGoZones')
       /\ ~ForwardStep => noGoZones' = noGoZones]_vars

\* The label of a second interaction has just been registered after the
\* two zones of a first one between other lanes.
C30_Witness ==
    /\ pc = "forward"
    /\ ip > 1
    /\ actions[ip - 1].fn \in LabelFns
    /\ Len(noGoZones) = 3
    /\ noGoZones[1].seg.end <= noGoZones[2].seg.start
    /\ noGoZones[2].seg.end <= noGoZones[3].seg.start
    /\ noGoZones[3].seg.end = tidemark
    /\ <<noGoZones[3].source, noGoZones[3].dest>> # <<noGoZones[1].source, noGoZones[1].dest>>

\* The lanes a statement references.
Referenced(s) == {s.ReferencedLifelines[k] : k \in 1..Len(s.ReferencedLifelines)}

\* C31: box tracker isolation. An action of a statement changes the boxes
\* of the lanes the statement references at most: the boxes of every other
\* lifeline are after the action what they were before it. A label or a
\* line changes no boxes at all.
C31_BoxTrackerIsolation ==
    [][ForwardStep =>
          /\ \A ll \in Lifelines \ Referenced(actions[ip].statement) :
                boxes'[ll] = boxes[ll]
          /\ actions[ip].fn \in LabelFns \cup LineFns => boxes' = boxes]_vars

\* A stop has just ended the box of its lifeline while the box in progress
\* of another lifeline stays in progress.
C31_Witness ==
    /\ pc = "forward"
    /\ ip > 1
    /\ actions[ip - 1].fn \in EndBoxFns
    /\ err = ""
    /\ LET a == actions[ip - 1].statement.ReferencedLifelines[1]
       IN  /\ Len(boxes[a]) >= 1
           /\ ~BoxOpen(boxes[a])
           /\ boxes[a][Len(boxes[a])].end + (IF impl = "Maker"
                                             THEN sizer.IndividualStoppedBoxPadB
                                             ELSE 0) = tidemark
           /\ \E other \in Lifelines \ {a} : BoxOpen(boxes[other])

\* C32: every segment Assemble returns lies within the lifeline extent: none
\* starts before top or ends after bottom, also when an occupied interval
\* starts before top, ends at or before top, or reaches beyond bottom.
C32_SegmentsWithinExtent ==
    pc = "Finalized" =>
        \A ll \in Lifelines : \A g \in Drawn(ll) :
            /\ top <= g.start
            /\ g.start <= g.end
            /\ g.end <= bottom

\* C33: a scan of statements with no full, dash, self or stop among them (an
\* empty list, or lane and title statements only) returns the tidemark it
\* was given, with no zones and no error.
C33_ScanWithoutInteractions ==
    [][(/\ impl = "Maker"
        /\ pc = "forward"
        /\ pc' # "forward"
        /\ \A i \in 1..Len(statements) : NoAction(statements[i])) =>
          /\ tidemark' = tidemark
          /\ noGoZones' = <<>>
          /\ err' = ""]_vars

\* C34: once a box has been terminated its start and end never change for
\* the rest of the build: whatever the step, a later stop on the lifeline
\* and the closing of the boxes after the forward pass included, every box
\* that is closed before the step is the same box after it.
C34_ClosedBoxesAreFinal ==
    [][\A ll \in Lifelines : \A i \in 1..Len(boxes[ll]) :
          ~boxes[ll][i].inProgress =>
              /\ Len(boxes'[ll]) >= i
              /\ boxes'[ll][i] = boxes[ll][i]]_vars

\* The boxes have just been closed after a forward pass that ended with two
\* stops in a row on a lifeline: its box still ends where the first stop
\* ended it, above where the closing would have put it.
C34_Witness ==
    /\ impl = "Creator"
    /\ pc = "finalizeLifelines"
    /\ sizer.ActivityBoxVerticalOverlap > 0
    /\ Len(statements) >= 2
    /\ LET n == Len(statements)
       IN  /\ statements[n].Keyword = "stop"
           /\ statements[n - 1] = statements[n]
           /\ LET a == statements[n].ReferencedLifelines[1]
              IN  /\ Len(boxes[a]) = 1
                  /\ ~boxes[a][1].inProgress
                  /\ boxes[a][1].end + sizer.ActivityBoxVerticalOverlap
                        + sizer.FinalizedActivityBoxesPadB = tidemark

\* C35: in a build without an error every closed box and every registered
\* zone has its start at or before its end, at every point of the build and
\* so when it completes: no invalid interval is ever made.
C35_IntervalsWellFormed ==
    (impl \in {"Maker", "Creator"} /\ err = "") =>
        /\ \A ll \in Lifelines : \A b \in ClosedBoxes(ll) : b.start <= b.end
        /\ \A j \in 1..Len(noGoZones) : noGoZones[j].seg.start <= noGoZones[j].seg.end

\* A finished build with a zone of no height at all, next to a box that a
\* stop closed right after the action that opened it.
C35_Witness ==
    /\ pc = "done"
    /\ err = ""
    /\ \E j \in 1..Len(noGoZones) : noGoZones[j].seg.start = noGoZones[j].seg.end
    /\ \E ll \in Lifelines : \E b \in ClosedBoxes(ll) :
          /\ b.start < top
          /\ b.end - b.start <= sizer.ActivityBoxVerticalOverlap

\* C36: the zones are registered with non-decreasing start and overlap in
\* no more than a boundary point: a zone registered later starts at or after
\* the end of every zone registered before it.
C36_ZonesInOrderAndApart ==
    impl \in {"Maker", "Creator"} =>
        \A i, j \in 1..Len(noGoZones) :
            i < j =>
                /\ noGoZones[i].seg.start <= noGoZones[j].seg.start
                /\ noGoZones[i].seg.end <= noGoZones[j].seg.start

\* A finished build with the zones of two interactions: label and line of
\* each touch, and something between the two interactions keeps them apart.
C36_Witness ==
    /\ pc = "done"
    /\ Len(noGoZones) = 4
    /\ noGoZones[1].seg.start < noGoZones[1].seg.end
    /\ noGoZones[1].seg.end = noGoZones[2].seg.start
    /\ noGoZones[2].seg.end < noGoZones[3].seg.start
    /\ noGoZones[3].seg.end = noGoZones[4].seg.start
    /\ noGoZones[4].seg.start < noGoZones[4].seg.end

\* C37: the closing of the boxes left in progress does not depend on the
\* order in which the lifelines are visited: every order gives the boxes the
\* step gives, all the boxes closed there end at the same coordinate, the
\* tidemark before the step plus the overlap, and the tidemark after the
\* step is that coordinate plus the pad below the closed boxes.
C37_ClosingOrderIndependent ==
    [][ClosingStep =>
          LET boxBottom == tidemark + sizer.ActivityBoxVerticalOverlap
          IN  /\ \A order \in MapOrders :
                    finalizeEach(tidemark, boxes, order, boxBottom).boxes = boxes'
              /\ \A ll \in Lifelines :
                    BoxOpen(boxes[ll]) => boxes'[ll][Len(boxes'[ll])].end = boxBottom
              /\ tidemark' = boxBottom + sizer.FinalizedActivityBoxesPadB]_vars

\* Three lifelines whose boxes were all in progress at the end of the
\* forward pass and have been closed at one and the same coordinate.
C37_Witness ==
    /\ pc = "finalizeLifelines"
    /\ Cardinality(Lifelines) = 3
    /\ sizer.ActivityBoxVerticalOverlap > 0
    /\ \A ll \in Lifelines :
          /\ Len(boxes[ll]) = 1
          /\ boxes[ll][1].end = tidemark - sizer.FinalizedActivityBoxesPadB
    /\ \E a, b \in Lifelines : boxes[a][1].start < boxes[b][1].start

\* The step that draws the lifelines.
FinalizeStep == pc = "finalizeLifelines" /\ pc' = "finalizeFrame"

====
